---- MODULE Spec2Model ----
(***************************************************************************)
(* Model of ctios.CtiOs (src/ctios/__init__.py): query_requests divides a *)
(* list of pseudo ids into requests, _query_service sends one request and *)
(* _save_attributes_to_db classifies every <os> record of the response,   *)
(* translates the XML attribute names to column names and updates table   *)
(* OPSUB of the SQLite database.                                          *)
(*                                                                         *)
(* Names (XML tags, column names) are sequences of one-character strings, *)
(* so that the regular-expression transliteration of _transform_names is  *)
(* computed character by character.                                       *)
(***************************************************************************)
EXTENDS Integers, Sequences, FiniteSets, TLC

\* Largest number of pseudo ids handed to query_requests.
MaxN == 3
\* Largest value of the configured Max_num (ids per request).
MaxM == 2

VARIABLES
    ids,                  \* argument of query_requests: the list of pseudo ids
    max_num,              \* self._max_num
    columns,              \* database: the columns of table OPSUB
    rows,                 \* database: committed content of OPSUB, id -> column -> value
    state_vector,         \* self.state_vector, the four counters
    pc,                   \* control position of the run
    mode,                 \* query_requests: which branch issued the last request
    i,                    \* query_requests: loop variable of the full arrays
    requested,            \* the id lists handed to _query_service so far, in order
    response,             \* _save_attributes_to_db: the <os> records of response_xml
    outcomes,             \* how each record of response handled so far ended
    err,                  \* the exception that ended the run, "none" otherwise
    connOpen,             \* a sqlite3 connection is open (not closed)
    col_names,            \* _save_attributes_to_db: local col_names
    database_attributes,  \* _save_attributes_to_db: local database_attributes
    translations,         \* <<xml_name, database_name>> pairs produced in this run
    alterLog,             \* one entry per ALTER TABLE executed: did the column exist, was it added
    received              \* per error marker, the records the service returned so far

vars == <<ids, max_num, columns, rows, state_vector, pc, mode, i, requested,
          response, outcomes, err, connOpen, col_names, database_attributes,
          translations, alterLog, received>>

----------------------------------------------------------------------------
\* Characters

LowerCase == <<"a","b","c","d","e","f","g","h","i","j","k","l","m",
               "n","o","p","q","r","s","t","u","v","w","x","y","z">>
UpperCase == <<"A","B","C","D","E","F","G","H","I","J","K","L","M",
               "N","O","P","Q","R","S","T","U","V","W","X","Y","Z">>

\* [A-Z]
UpperSet == {UpperCase[k] : k \in DOMAIN UpperCase}

\* str.upper() on the letters a-z
UpperOf ==
    [c \in {LowerCase[k] : k \in DOMAIN LowerCase} |->
        UpperCase[CHOOSE k \in DOMAIN LowerCase : LowerCase[k] = c]]

IsUpper(c) == c \in UpperSet

ToUpper(c) == IF c \in DOMAIN UpperOf THEN UpperOf[c] ELSE c

\* XML tags of osDetail children used as inputs
stavDat == <<"s","t","a","v","D","a","t">>
StavDat == <<"S","t","a","v","D","a","t">>
osId    == <<"o","s","I","d">>
neznamy == <<"n","e","z","n","a","m","y">>

\* XML tags of the children of <os>
pOSIdent      == <<"p","O","S","I","d","e","n","t">>
chybaPOSIdent == <<"c","h","y","b","a","P","O","S","I","d","e","n","t">>
osDetail      == <<"o","s","D","e","t","a","i","l">>

\* Column names
ID         == <<"I","D">>
STAV_DAT   == <<"S","T","A","V","_","D","A","T">>
STAV_DATUM == <<"S","T","A","V","_","D","A","T","U","M">>
OS_ID      == <<"O","S","_","I","D">>
OSID       == <<"O","S","I","D">>

NULL == 0

\* Columns of OPSUB before the library touches the database
BaseColumns == {ID, STAV_DAT, STAV_DATUM}

\* Content of the attribute map file (XML tag -> column name)
AttributeMap == [n \in {StavDat, osId} |-> IF n = StavDat THEN STAV_DATUM ELSE OSID]

\* Result of a dictionary lookup that raised
KeyError == <<>>

----------------------------------------------------------------------------
\* Response records

NoMarker == "<none>"
NEPLATNY == "NEPLATNY_IDENTIFIKATOR"
EXPIROVANY == "EXPIROVANY_IDENTIFIKATOR"
OPRAVNENY == "OPRAVNENY_SUBJEKT_NEEXISTUJE"
JINA_CHYBA == "JINA_CHYBA"

Markers == {NoMarker, NEPLATNY, EXPIROVANY, OPRAVNENY, JINA_CHYBA}

DetailBoth    == << [name |-> stavDat, text |-> 1], [name |-> StavDat, text |-> 2] >>
DetailOsId    == << [name |-> stavDat, text |-> 1], [name |-> StavDat, text |-> 2],
                    [name |-> osId, text |-> 3] >>
DetailUnknown == << [name |-> neznamy, text |-> 4] >>

\* The shapes of one <os> element: its chybaPOSIdent text (NoMarker when the
\* element is absent), whether it has an osDetail child, the children of it,
\* and whether the child osId of <os> stands before osDetail or after it.
RecordShapes ==
    { [chybaPOSIdent |-> m, hasDetail |-> FALSE, osDetail |-> <<>>, osIdFirst |-> TRUE] :
          m \in {NEPLATNY, EXPIROVANY, OPRAVNENY, JINA_CHYBA} }
    \cup { [chybaPOSIdent |-> JINA_CHYBA, hasDetail |-> TRUE, osDetail |-> DetailBoth,
            osIdFirst |-> f] : f \in BOOLEAN }
    \cup { [chybaPOSIdent |-> NoMarker, hasDetail |-> TRUE, osDetail |-> d,
            osIdFirst |-> f] :
          d \in {DetailBoth, DetailOsId, DetailUnknown}, f \in BOOLEAN }

ServiceRecordId(posident) == 100 + posident

OsRecord(posident, shape) ==
    [pOSIdent |-> posident, osId |-> ServiceRecordId(posident),
     chybaPOSIdent |-> shape.chybaPOSIdent, hasDetail |-> shape.hasDetail,
     osDetail |-> shape.osDetail, osIdFirst |-> shape.osIdFirst]

\* The elements under <os> in document order, each with its tag and text
Descendants(rec) ==
    LET first  == << [name |-> pOSIdent, text |-> rec.pOSIdent] >>
        marker == IF rec.chybaPOSIdent = NoMarker THEN <<>>
                  ELSE << [name |-> chybaPOSIdent, text |-> rec.chybaPOSIdent] >>
        id     == << [name |-> osId, text |-> rec.osId] >>
        detail == IF rec.hasDetail
                  THEN << [name |-> osDetail, text |-> NULL] >> \o rec.osDetail
                  ELSE <<>>
    IN  first \o marker \o (IF rec.osIdFirst THEN id \o detail ELSE detail \o id)

\* os.find('.//{tag}').text: the text of the first element under <os> with the tag
FindText(rec, tag) ==
    LET d == Descendants(rec)
        k == CHOOSE j \in DOMAIN d :
                 d[j].name = tag /\ \A h \in 1..(j - 1) : d[h].name # tag
    IN  d[k].text

\* lines 300-303: xml_attributes, one entry per child of osDetail, in order; the
\* value is the text of the first element under <os> that has the child's tag
xml_attributes(rec) ==
    [k \in DOMAIN rec.osDetail |->
        [name |-> rec.osDetail[k].name, text |-> FindText(rec, rec.osDetail[k].name)]]

\* One <os> element per requested pseudo id, in the order of the request
ResponsesFor(batch) ==
    { [k \in 1..Len(batch) |-> OsRecord(batch[k], f[k])] :
          f \in [1..Len(batch) -> RecordShapes] }

CountMarker(recs, m) == Cardinality({k \in DOMAIN recs : recs[k].chybaPOSIdent = m})

----------------------------------------------------------------------------
\* Attribute names

\* re.sub('([A-Z]{1})', r'_\1', xml_name).upper()
RECURSIVE transform_names(_)
transform_names(xml_name) ==
    IF xml_name = <<>> THEN <<>>
    ELSE (IF IsUpper(Head(xml_name))
          THEN <<"_", Head(xml_name)>>
          ELSE <<ToUpper(Head(xml_name))>>) \o transform_names(Tail(xml_name))

\* A lookup that uses the transliterated name as the key of the dictionary
transform_names_dict_by_column(xml_name) ==
    IF transform_names(xml_name) \in DOMAIN AttributeMap
    THEN AttributeMap[transform_names(xml_name)]
    ELSE transform_names(xml_name)

\* dictionary[xml_name]; a missing key raises (KeyError, re-raised as CtiOsError)
transform_names_dict(xml_name) ==
    IF xml_name \in DOMAIN AttributeMap THEN AttributeMap[xml_name] ELSE KeyError

\* lines 325-327: the name of the column for one XML attribute
DatabaseName(xml_name, cn) ==
    IF transform_names(xml_name) \notin cn
    THEN transform_names_dict(xml_name)
    ELSE transform_names(xml_name)

\* database_attributes.update({database_name: xml_value}) on an insertion-ordered dict
DictUpdate(d, key, val) ==
    IF \E k \in DOMAIN d : d[k].col = key
    THEN [k \in DOMAIN d |-> IF d[k].col = key THEN [col |-> key, val |-> val] ELSE d[k]]
    ELSE Append(d, [col |-> key, val |-> val])

\* lines 323-328: the loop over xml_attributes, which stops at the first
\* attribute whose name cannot be converted
RECURSIVE TransformAll(_, _, _, _, _)
TransformAll(detail, k, cn, attrs, names) ==
    IF k > Len(detail) THEN [failed |-> FALSE, attributes |-> attrs, names |-> names]
    ELSE LET database_name == DatabaseName(detail[k].name, cn) IN
         IF database_name = KeyError
         THEN [failed |-> TRUE, attributes |-> attrs, names |-> names]
         ELSE TransformAll(detail, k + 1, cn,
                           DictUpdate(attrs, database_name, detail[k].text),
                           names \cup {<<detail[k].name, database_name>>})

----------------------------------------------------------------------------
\* Counters

\* A counter set to one instead of incremented
Assign(sv, key) == [sv EXCEPT ![key] = 1]

\* self.state_vector[key] += 1
Increment(sv, key) == [sv EXCEPT ![key] = @ + 1]

CounterOf(marker) ==
    CASE marker = NEPLATNY   -> "neplatny_identifikator"
      [] marker = EXPIROVANY -> "expirovany_identifikator"
      [] marker = OPRAVNENY  -> "opravneny_subjekt_neexistuje"
      [] marker = NoMarker   -> "uspesne_stazeno"

KnownErrors == {NEPLATNY, EXPIROVANY, OPRAVNENY}

\* lines 268-288: the counter a record increments, if any; a record with an
\* error marker that is none of the three literals increments none
Classify(sv, rec) ==
    IF rec.chybaPOSIdent \in KnownErrors \cup {NoMarker}
    THEN Increment(sv, CounterOf(rec.chybaPOSIdent))
    ELSE sv

\* lines 271-286: the three branches that end with continue
Continues(rec) == rec.chybaPOSIdent \in KnownErrors

----------------------------------------------------------------------------
\* Database

\* The column check that always asks for the column to be added
NeedsAlterAlways(cn) == TRUE

\* line 312: if 'OS_ID' not in col_names
NeedsAlter(cn) == OS_ID \notin cn

\* Faults of the database while one record is saved: none, the connection
\* cannot be opened ("open"), the table cannot be read (lines 309-310,
\* "inspect"), ALTER TABLE fails when it is executed (line 313, "alter": the
\* database is locked), or the j-th statement of the transaction fails. A
\* failing statement leaves the transaction open ("write"), or SQLite has
\* rolled the transaction back by itself when the statement returns ("abort":
\* disk full, I/O error). A record that is skipped or has no osDetail does not
\* reach the database.
Faults(rec, cols) ==
    IF Continues(rec) \/ ~rec.hasDetail
    THEN { [kind |-> "none", at |-> 0] }
    ELSE { [kind |-> k, at |-> 0] : k \in {"none", "open", "inspect"} }
         \cup { [kind |-> "alter", at |-> 0] : x \in {c \in {cols} : NeedsAlter(c)} }
         \cup { [kind |-> k, at |-> j] :
                    k \in {"write", "abort"}, j \in 1..(Len(rec.osDetail) + 2) }

\* line 313: ALTER TABLE OPSUB ADD COLUMN OS_ID TEXT (runs outside a transaction)
AlterColumns(cols) == cols \cup {OS_ID}

AlterRows(rs, cols) ==
    [id \in DOMAIN rs |->
        [c \in AlterColumns(cols) |-> IF c \in cols THEN rs[id][c] ELSE NULL]]

\* UPDATE OPSUB SET col = val WHERE id = posident
Update(rs, col, val, posident) ==
    [id \in DOMAIN rs |-> IF id = posident THEN [rs[id] EXCEPT ![col] = val] ELSE rs[id]]

\* lines 334-336: the UPDATE statements of one record, in order
Statements(attrs, rec) == Append(attrs, [col |-> OS_ID, val |-> rec.osId])

\* Executes the statements from the k-th on inside the open transaction. A
\* statement that names no column of OPSUB fails when it is prepared; another
\* one fails when the fault hits it.
RECURSIVE RunUpdates(_, _, _, _, _, _)
RunUpdates(pending, cols, stmts, k, posident, fault) ==
    IF k > Len(stmts) THEN [ok |-> TRUE, aborted |-> FALSE, rows |-> pending]
    ELSE IF stmts[k].col \notin cols
    THEN [ok |-> FALSE, aborted |-> FALSE, rows |-> pending]
    ELSE IF fault.kind \in {"write", "abort"} /\ fault.at = k
    THEN [ok |-> FALSE, aborted |-> fault.kind = "abort", rows |-> pending]
    ELSE RunUpdates(Update(pending, stmts[k].col, stmts[k].val, posident),
                    cols, stmts, k + 1, posident, fault)

\* line 343: ROLLBACK TRANSACTION
Rollback(before, pending) == before

\* line 337: COMMIT TRANSACTION
Commit(before, pending) == pending

\* lines 331-348: the transaction of one record. After a failed statement
\* the handler executes ROLLBACK; when SQLite has already rolled back, that
\* ROLLBACK raises (no transaction is active) and the error leaves the handler.
Transaction(rs, cols, attrs, rec, fault) ==
    LET stmts == Statements(attrs, rec)
        done  == RunUpdates(rs, cols, stmts, 1, rec.pOSIdent, fault)
        commitFails == fault.kind \in {"write", "abort"} /\ fault.at = Len(stmts) + 1
    IN  IF done.ok /\ ~commitFails
        THEN [outcome |-> "committed", rows |-> Commit(rs, done.rows)]
        ELSE IF done.aborted \/ (done.ok /\ fault.kind = "abort")
        THEN [outcome |-> "raised_rollback", rows |-> rs]
        ELSE [outcome |-> "rolledback", rows |-> Rollback(rs, done.rows)]

----------------------------------------------------------------------------
\* _save_attributes_to_db: one iteration of the loop over the <os> records

\* conn was assigned by an earlier iteration of this call
ConnBound == \E k \in DOMAIN outcomes : outcomes[k] \in {"committed", "rolledback"}

\* lines 305-348 for a record that was not skipped: the connection, the column
\* check, the translation of the names and the transaction
Persist(base, rec, fault) ==
    IF fault.kind = "open"
    THEN \* _create_connection raises CtiOsError; the except clause reads conn
         [base EXCEPT !.outcome = "raised_open",
                      !.err = IF ConnBound THEN "CtiOsError" ELSE "UnboundLocalError"]
    ELSE IF fault.kind = "inspect"
    THEN \* a statement of lines 309-310 fails before col_names is assigned:
         \* close, raise Exception
         [base EXCEPT !.outcome = "raised_inspect", !.err = "Exception"]
    ELSE IF NeedsAlter(columns) /\ (fault.kind = "alter" \/ OS_ID \in columns)
    THEN \* ALTER TABLE of line 313 fails (locked, or the column exists) after
         \* line 311 has assigned col_names: close, raise Exception
         [base EXCEPT !.outcome = "raised_inspect", !.err = "Exception",
                      !.col_names = columns,
                      !.alter = <<[existed |-> OS_ID \in columns, added |-> FALSE]>>]
    ELSE LET cn    == columns
             alter == NeedsAlter(cn)
             cols1 == IF alter THEN AlterColumns(columns) ELSE columns
             rows1 == IF alter THEN AlterRows(rows, columns) ELSE rows
             log   == IF alter THEN <<[existed |-> FALSE, added |-> TRUE]>> ELSE <<>>
             tr    == TransformAll(xml_attributes(rec), 1, cn, <<>>, {})
             tx    == Transaction(rows1, cols1, tr.attributes, rec, fault)
         IN  IF tr.failed
             THEN \* _transform_names_dict raises between the two try blocks
                  [base EXCEPT !.outcome = "raised_translate", !.err = "CtiOsError",
                               !.columns = cols1, !.rows = rows1, !.alter = log,
                               !.col_names = cn, !.database_attributes = tr.attributes,
                               !.names = tr.names, !.connOpen = TRUE]
             ELSE [base EXCEPT !.outcome = tx.outcome,
                               !.err = IF tx.outcome = "raised_rollback"
                                       THEN "OperationalError" ELSE "none",
                               !.columns = cols1, !.rows = tx.rows, !.alter = log,
                               !.col_names = cn, !.database_attributes = tr.attributes,
                               !.names = tr.names]

\* lines 265-348: the body of the loop for one record
SaveOne(rec, fault) ==
    LET base == [sv |-> Classify(state_vector, rec), columns |-> columns, rows |-> rows,
                 col_names |-> col_names, database_attributes |-> database_attributes,
                 names |-> {}, alter |-> <<>>, connOpen |-> FALSE,
                 outcome |-> rec.chybaPOSIdent, err |-> "none"]
    IN  IF Continues(rec) THEN base
        ELSE IF ~rec.hasDetail
        THEN \* line 301: os.find(...) is None and cannot be iterated
             [base EXCEPT !.outcome = "raised_extract", !.err = "TypeError"]
        ELSE Persist(base, rec, fault)

----------------------------------------------------------------------------
\* The run

\* set_log_file: the state vector starts at zero
ZeroVector ==
    [k \in {"neplatny_identifikator", "expirovany_identifikator",
            "opravneny_subjekt_neexistuje", "uspesne_stazeno"} |-> 0]

\* The state when query_requests is called. The database is as imported
\* (no OS_ID column) or as an earlier run of the library left it (OS_ID added).
Init ==
    /\ ids \in {[k \in 1..n |-> k] : n \in 0..MaxN}
    /\ max_num \in 1..MaxM
    /\ columns \in {BaseColumns, AlterColumns(BaseColumns)}
    /\ rows = [id \in 1..Len(ids) |-> [c \in columns |-> IF c = ID THEN id ELSE NULL]]
    /\ state_vector = ZeroVector
    /\ pc = "start"
    /\ mode = "init"
    /\ i = 0
    /\ requested = <<>>
    /\ response = <<>>
    /\ outcomes = <<>>
    /\ err = "none"
    /\ connOpen = FALSE
    /\ col_names = {}
    /\ database_attributes = <<>>
    /\ translations = {}
    /\ alterLog = <<>>
    /\ received = [m \in Markers |-> 0]

\* line 380: math.floor(len(ids) / self._max_num)
full_arrays == Len(ids) \div max_num
\* line 381
rest == Len(ids) % max_num

\* _query_service is entered with the list: only the orchestration changes
Hand(batch, branch) ==
    /\ requested' = Append(requested, batch)
    /\ mode' = branch
    /\ pc' = "query"
    /\ UNCHANGED <<ids, max_num, columns, rows, state_vector, response, outcomes, err,
                   connOpen, col_names, database_attributes, translations, alterLog,
                   received>>

\* lines 375-376
RequestSingle ==
    /\ pc = "start"
    /\ Len(ids) <= max_num
    /\ i' = i
    /\ Hand(ids, "single")

\* lines 382-386: ids[start: end]
RequestFull ==
    /\ pc \in {"start", "next"}
    /\ mode \in {"init", "full"}
    /\ Len(ids) > max_num
    /\ i < full_arrays
    /\ i' = i + 1
    /\ Hand(SubSeq(ids, i * max_num + 1, i * max_num + max_num), "full")

\* lines 389-392: ids[len(ids) - rest: len(ids)], requested when not empty
RequestRest ==
    /\ pc = "next"
    /\ mode = "full"
    /\ i = full_arrays
    /\ SubSeq(ids, Len(ids) - rest + 1, Len(ids)) # <<>>
    /\ i' = i
    /\ Hand(SubSeq(ids, Len(ids) - rest + 1, Len(ids)), "rest")

\* lines 393-407: no rest, the counters are logged
NoRest ==
    /\ pc = "next"
    /\ mode = "full"
    /\ i = full_arrays
    /\ SubSeq(ids, Len(ids) - rest + 1, Len(ids)) = <<>>
    /\ pc' = "done"
    /\ UNCHANGED <<ids, max_num, columns, rows, state_vector, mode, i, requested,
                   response, outcomes, err, connOpen, col_names, database_attributes,
                   translations, alterLog, received>>

\* lines 377-378 and 392-407: the last request has returned
Finish ==
    /\ pc = "next"
    /\ mode \in {"single", "rest"}
    /\ pc' = "done"
    /\ UNCHANGED <<ids, max_num, columns, rows, state_vector, mode, i, requested,
                   response, outcomes, err, connOpen, col_names, database_attributes,
                   translations, alterLog, received>>

\* lines 360-363: the request is sent and the response parsed
CallService ==
    /\ pc = "query"
    /\ \E resp \in ResponsesFor(requested[Len(requested)]) :
          /\ response' = resp
          /\ received' = [m \in Markers |-> received[m] + CountMarker(resp, m)]
    /\ outcomes' = <<>>
    /\ col_names' = {}
    /\ database_attributes' = <<>>
    /\ pc' = "save"
    /\ UNCHANGED <<ids, max_num, columns, rows, state_vector, mode, i, requested, err,
                   connOpen, translations, alterLog>>

\* lines 206-207: requests raises, CtiOsError("Service error")
CallServiceFails ==
    /\ pc = "query"
    /\ pc' = "raised"
    /\ err' = "CtiOsError"
    /\ UNCHANGED <<ids, max_num, columns, rows, state_vector, mode, i, requested,
                   response, outcomes, connOpen, col_names, database_attributes,
                   translations, alterLog, received>>

\* lines 265-348: the next record of the response
SaveRecord ==
    /\ pc = "save"
    /\ Len(outcomes) < Len(response)
    /\ \E fault \in Faults(response[Len(outcomes) + 1], columns) :
          \E r \in {SaveOne(response[Len(outcomes) + 1], fault)} :
          /\ state_vector' = r.sv
          /\ columns' = r.columns
          /\ rows' = r.rows
          /\ col_names' = r.col_names
          /\ database_attributes' = r.database_attributes
          /\ translations' = translations \cup r.names
          /\ alterLog' = alterLog \o r.alter
          /\ connOpen' = r.connOpen
          /\ outcomes' = Append(outcomes, r.outcome)
          /\ err' = r.err
          /\ pc' = IF r.err = "none" THEN "save" ELSE "raised"
    /\ UNCHANGED <<ids, max_num, mode, i, requested, response, received>>

\* lines 349-350: the loop is over
SaveReturn ==
    /\ pc = "save"
    /\ Len(outcomes) = Len(response)
    /\ pc' = "next"
    /\ UNCHANGED <<ids, max_num, columns, rows, state_vector, mode, i, requested,
                   response, outcomes, err, connOpen, col_names, database_attributes,
                   translations, alterLog, received>>

Next ==
    \/ RequestSingle
    \/ RequestFull
    \/ RequestRest
    \/ NoRest
    \/ Finish
    \/ CallService
    \/ CallServiceFails
    \/ SaveRecord
    \/ SaveReturn

Spec == Init /\ [][Next]_vars

----------------------------------------------------------------------------
\* Properties

RECURSIVE Flatten(_)
Flatten(ss) == IF ss = <<>> THEN <<>> ELSE Head(ss) \o Flatten(Tail(ss))

IsPrefix(s, t) == Len(s) <= Len(t) /\ SubSeq(t, 1, Len(s)) = s

SumCounters(sv) ==
    sv["neplatny_identifikator"] + sv["expirovany_identifikator"]
    + sv["opravneny_subjekt_neexistuje"] + sv["uspesne_stazeno"]

RequestedIds == Len(Flatten(requested))

\* The record's service record id is what the row of its pseudo id holds
Visible(rec) == OS_ID \in columns /\ rows[rec.pOSIdent][OS_ID] = rec.osId

HasOutcome(o) == \E k \in DOMAIN outcomes : outcomes[k] = o

\* The service has returned no record with an error marker other than the
\* three literals in this run
OnlyKnownMarkers == received[JINA_CHYBA] = 0

\* The records of the current response that the loop has not reached
Unprocessed == SubSeq(response, Len(outcomes) + 1, Len(response))

\* C1: the lists handed to _query_service are non-empty consecutive slices of
\* ids of at most max_num ids each, only the last may be shorter than max_num,
\* and when the run is over they cover ids exactly once.
C1_Partition ==
    /\ \A k \in DOMAIN requested :
          /\ requested[k] # <<>>
          /\ Len(requested[k]) <= max_num
          /\ (k < Len(requested) => Len(requested[k]) = max_num)
    /\ IsPrefix(Flatten(requested), ids)
    /\ (pc = "done" => Flatten(requested) = ids)

\* The same partition property for the non-empty lists only
PartitionOfNonEmpty == ids # <<>> => C1_Partition

RecordAllOrNothing ==
    [][ (pc = "save" /\ Len(outcomes') = Len(outcomes) + 1
         /\ outcomes'[Len(outcomes')] \in {"rolledback", "raised_rollback"})
        => \A id \in DOMAIN rows : \A c \in columns' :
              rows'[id][c] = IF c \in columns THEN rows[id][c] ELSE NULL ]_vars

\* C3: a write fault is fatal to the run: once a success record was rolled back
\* the run has raised an error, so no further record is saved and no request
\* is sent.
C3_WriteFaultIsFatal ==
    (OnlyKnownMarkers /\ HasOutcome("rolledback")) => (pc = "raised" /\ err # "none")

\* C4: when _save_attributes_to_db has returned, the four counters together
\* have counted every record of every response, one per requested id.
C4_ClassificationTotals == pc = "next" => SumCounters(state_vector) = RequestedIds

\* C5: a record whose error marker is none of the three literals ends the run
\* with an error and is neither saved nor rolled back: it never reaches the
\* store.
C5_UnknownMarkerSurfaced ==
    \A k \in DOMAIN outcomes :
        response[k].chybaPOSIdent \notin KnownErrors \cup {NoMarker}
            => (pc = "raised" /\ outcomes[k] \notin {"committed", "rolledback"})

\* C6: in a run over any records and requests, on a database with or without
\* the OS_ID column (a first or a repeated run), ALTER TABLE is executed at
\* most once, never while the column exists (so it never fails because the
\* column exists), and the column is there after an ALTER TABLE that added it.
C6_SchemaIdempotent ==
    /\ Len(alterLog) <= 1
    /\ \A k \in DOMAIN alterLog :
          /\ ~alterLog[k].existed
          /\ alterLog[k].added => OS_ID \in columns

\* The run is over after two requests: the column was added once, for the
\* first success record, and a later record was committed without adding it.
C6_Witness ==
    /\ OnlyKnownMarkers
    /\ pc = "done"
    /\ outcomes # <<>>
    /\ Len(requested) = 2
    /\ Len(alterLog) = 1
    /\ alterLog[1].added
    /\ state_vector["uspesne_stazeno"] >= 2
    /\ outcomes[Len(outcomes)] = "committed"

\* C7: no connection is open between two records, when _save_attributes_to_db
\* has returned or when it has raised (responses of success records and
\* records with one of the three error literals).
C7_ConnectionReleased == OnlyKnownMarkers => ~connOpen

\* The column the two-stage resolution gives for an attribute, KeyError when
\* neither stage gives one
Resolved(xml_name, known) ==
    IF transform_names(xml_name) \in known THEN transform_names(xml_name)
    ELSE IF xml_name \in DOMAIN AttributeMap THEN AttributeMap[xml_name]
    ELSE KeyError

\* C8: for the record handled last, when it reached the translation: every
\* attribute resolves to its transliterated name if that is a known column and
\* else to the mapping's value for the original name; if some attribute
\* resolves to nothing the run ends with CtiOsError and the record is not
\* written; a committed record is written under columns of the table only.
\* StavDat resolves to STAV_DATUM, stavDat to STAV_DAT.
C8_TwoStageResolution ==
    /\ \A t \in translations :
          /\ t[1] = StavDat => t[2] = STAV_DATUM
          /\ t[1] = stavDat => t[2] = STAV_DAT
    /\ outcomes # <<>> =>
          LET rec == response[Len(outcomes)]
              last == outcomes[Len(outcomes)]
              unresolved == \E k \in DOMAIN rec.osDetail :
                               Resolved(rec.osDetail[k].name, col_names) = KeyError
          IN  /\ last \in {"committed", "rolledback"} =>
                    /\ ~unresolved
                    /\ {database_attributes[k].col : k \in DOMAIN database_attributes}
                         = {Resolved(rec.osDetail[k].name, col_names) :
                                k \in DOMAIN rec.osDetail}
                    /\ \A k \in DOMAIN rec.osDetail :
                          <<rec.osDetail[k].name,
                            Resolved(rec.osDetail[k].name, col_names)>> \in translations
              /\ last = "committed" =>
                    \A k \in DOMAIN database_attributes :
                        /\ database_attributes[k].col \in columns
                        /\ database_attributes[k].col # OS_ID =>
                              rows[rec.pOSIdent][database_attributes[k].col]
                                  = database_attributes[k].val
              /\ last = "raised_translate" =>
                    /\ unresolved
                    /\ err = "CtiOsError"
                    /\ pc = "raised"
              /\ (unresolved /\ last \notin {"raised_open", "raised_inspect"})
                    => last = "raised_translate"

\* A record with StavDat was committed: its value is in column STAV_DATUM.
C8_Witness ==
    /\ OnlyKnownMarkers
    /\ outcomes # <<>>
    /\ outcomes[Len(outcomes)] = "committed"
    /\ <<StavDat, STAV_DATUM>> \in translations
    /\ rows[response[Len(outcomes)].pOSIdent][STAV_DATUM] = 2

\* C9: at every point of a run each counter equals the number of records of its
\* kind among the records handled so far, over all responses of the run: what
\* the service returned less what the loop has not reached. A success record
\* is counted whether it was committed or rolled back.
C9_CountersAccumulate ==
    \A m \in KnownErrors \cup {NoMarker} :
        state_vector[CounterOf(m)] + CountMarker(Unprocessed, m) = received[m]

\* The run is over after two requests, with two success records, one of them
\* rolled back, and one invalid identifier.
C9_Witness ==
    /\ OnlyKnownMarkers
    /\ pc = "done"
    /\ Len(requested) = 2
    /\ state_vector["uspesne_stazeno"] = 2
    /\ state_vector["neplatny_identifikator"] = 1
    /\ HasOutcome("rolledback")

\* C10: within one run an attribute name is given one column name.
C10_TranslationDeterministic ==
    OnlyKnownMarkers =>
        \A s \in translations : \A t \in translations : s[1] = t[1] => s[2] = t[2]

====
